---- MODULE Spec2Model ----
(***************************************************************************)
(* Vakeel-Way liveness state engine.                                       *)
(*                                                                         *)
(* Two goroutines share the TTL cache of the StateManager:                 *)
(*   "drainer"  Checker.Handler, which takes ids from the Events channel   *)
(*              and runs StateManager.Send(ctx, id, Up) on each            *)
(*   "sweeper"  Cache.cleanup, which on every ticker tick runs             *)
(*              Cache.removeExpiredItems, and inside it the eviction       *)
(*              callback StateManager.garbageCollector                     *)
(* Time is in seconds.  Cache.Get and Cache.Add take the cache mutex for   *)
(* the length of one map access and are one step each; the sweep holds the *)
(* mutex over many steps.                                                  *)
(***************************************************************************)
EXTENDS Naturals, Integers, Sequences, FiniteSets, TLC

\* ------------------------------------------------------------ constants

\* StateManager.Send: const ttl = time.Minute
ttl == 60

\* StateManager.garbageCollector: const timeout = 15 * time.Second
timeout == 15

\* StateManager.garbageCollector: const maxAttempts = 5
maxAttempts == 5

\* NewCache: evictDuration: time.Minute (NewStateManager passes no option)
evictDuration == 60

\* NewChecker: const bufferSize = 64
bufferSize == 64

\* entities.Status and its String() form
Up == "up"
Down == "down"

\* ------------------------------------------------------------ bounds

\* The clock is observed once per sweep interval: a deadline is then later
\* than, equal to or earlier than the time of a sweep, the three cases the
\* expiry test tells apart.
Quantum == evictDuration

\* The clock stops after MaxQuanta steps.
MaxQuanta == 4

MaxTime == MaxQuanta * Quantum

\* Ids waiting in the Events channel are bounded by MaxPending (and by
\* bufferSize).
MaxPending == 2

\* ------------------------------------------------------------ directory

\* The webhook directory given at start-up: two configured services.
storage == [s \in {"s1", "s2"} |-> IF s = "s1" THEN "http://h/1" ELSE "http://h/2"]

\* Ids an agent may send: the configured ones and an unknown one.
Ids == DOMAIN storage \cup {"x"}

\* Faulty variant: the directory has a target for every id
RepoGet_Any(id) == [target |-> "http://h/0", err |-> "nil"]

\* WebhookStubRepository.Get: (url, nil) or ("", ErrWebhookNotFound)
RepoGet(id) ==
  IF id \in DOMAIN storage
    THEN [target |-> storage[id], err |-> "nil"]
    ELSE [target |-> "", err |-> "ErrWebhookNotFound"]

\* ------------------------------------------------------------ state

Procs == {"drainer", "sweeper"}

VARIABLES
  now,           \* clock.Now()
  tickPending,   \* a tick waits in ticker.C (buffer of one)
  nextTick,      \* when the ticker fires next
  items,         \* Cache.items: key -> [Value, TTL]
  cacheMu,       \* Cache.mu: "free" or the goroutine holding it for writing
  stateMu,       \* StateManager.mu: "free" or the goroutine holding it
  pc,            \* where each goroutine is
  addArgs,       \* the arguments of the Cache.Add call a goroutine is in
  Events,        \* Checker.Events
  dId,           \* drainer: the id StateManager.Send is handling
  dCur,          \* drainer: currentStatus, the result of cache.Get
  dTrace,        \* drainer: directory and notifier calls of the current Send
  dRet,          \* drainer: what the last Send returned
  swTodo,        \* sweeper: keys the range loop has still to visit
  swKey,         \* sweeper: the key handed to the eviction callback
  swCur,         \* sweeper: garbageCollector's current (a copy of the value)
  swOut,         \* sweeper: what the transport did with garbageCollector's request
  lastDelivered, \* per id: status of the last notification that succeeded
  downs,         \* per id: Down notifications emitted
  edges,         \* per id: evictions of an entry with attempt 0
  edgeDowns,     \* per id: Down notifications since the last heartbeat write
  edgeDownOk,    \* per id: successful ones among edgeDowns
  upOkEdge,      \* per id: successful Up notifications since the entry was last removed
  onEvict,       \* Cache.onEvict: the callbacks one eviction calls, in call order
  registered,    \* the callbacks given to Cache.OnEvict, in registration order
  added,         \* per key: the last Add a client of the cache made
  got,           \* what the last Get of a client returned, and which call it was
  lastEvict,     \* the last call of Cache.onEvict: key, value, callbacks run,
                 \* and how many calls the client had made
  clientOps,     \* calls the client of the cache has made
  rpcIds,        \* GRPCServer.Update: ids of the request still to hand over
  rpcPc,         \* GRPCServer.Update: where the stream's handler is
  acks,          \* UpdateResponse messages sent on the stream
  rootDone,      \* the root context (signal.NotifyContext) is cancelled
  streamDone,    \* the stream's context is cancelled
  closed,        \* Checker.Events is closed
  panicked       \* a goroutine panicked: the process is gone

vars == <<now, tickPending, nextTick, items, cacheMu, stateMu, pc, addArgs,
          Events, dId, dCur, dTrace, dRet, swTodo, swKey, swCur, swOut,
          lastDelivered, downs, edges, edgeDowns, edgeDownOk, upOkEdge,
          onEvict, registered, added, got, lastEvict, clientOps,
          rpcIds, rpcPc, acks, rootDone, streamDone, closed, panicked>>

obsVars == <<lastDelivered, downs, edges, edgeDowns, edgeDownOk, upOkEdge>>
clockVars == <<now, tickPending, nextTick>>
drainVars == <<Events, dId, dCur, dTrace, dRet>>
sweepVars == <<swTodo, swKey, swCur, swOut>>
libVars == <<onEvict, registered, added, got, lastEvict, clientOps>>
streamVars == <<rpcIds, rpcPc, acks>>
lifeVars == <<rootDone, streamDone, closed, panicked>>

\* A nil *state, as cache.Get returns for a missing key.
NilState == [status |-> "nil", attempt |-> 0]

NoCall == [key |-> "none", value |-> NilState, ttl |-> 0]

\* What the transport does with a request: a response with its HTTP status,
\* an error of its own, or the error of a context that is done.
NoOut == [kind |-> "none", code |-> 0]
Failure == [kind |-> "error", code |-> 0]
Canceled == [kind |-> "canceled", code |-> 0]
Transport == {[kind |-> "response", code |-> 200], [kind |-> "response", code |-> 500], Failure}

\* Faulty variant: a response with an error status is an error
ApiOk_Only2xx(out) == out.kind = "response" /\ out.code < 300

\* Api.Send: resp, err := s.client.Do(req); if err != nil { return err }; return nil
ApiOk(out) == out.kind = "response"

\* Faulty variant: the eviction handler runs under the stream's context
GcCtx_Stream == "stream"

\* garbageCollector: context.WithTimeout(context.Background(), timeout)
GcCtx == "background"

\* Checker.Handler hands its own context, the root one, to StateManager.Send
SendCtx == "root"

\* ctx.Done() is closed
Cancelled(c) == (c = "root" /\ rootDone) \/ (c = "stream" /\ streamDone)

\* http.Client.Do under a request context
Outcomes(c) == IF Cancelled(c) THEN {Canceled} ELSE Transport

\* Faulty variant: the entry is written with a used attempt
NewState_Attempt1(status) == [status |-> status, attempt |-> 1]

\* Faulty variant: the entry is written as Down
NewState_Down(status) == [status |-> Down, attempt |-> 0]

\* state{status: status, attempt: 0}
NewState(status) == [status |-> status, attempt |-> 0]

\* Faulty variant: the ttl is not added to the current time
Deadline_NoTtl(t, d) == t

\* c.clock.Now().Add(ttl)
Deadline(t, d) == t + d

\* Faulty variant: an item whose deadline is the current time counts as expired
Expired_Inclusive(it, t) == it.TTL <= t

\* item.TTL.Before(c.clock.Now())
Expired(it, t) == it.TTL < t

\* Faulty variant: the equal-status test succeeds on a nil pointer too
SameStatus_Always(cur, status) == TRUE

\* Faulty variant: the equal-status test never succeeds
SameStatus_Never(cur, status) == FALSE

\* Faulty variant: the equal-status test compares the wrong way round
SameStatus_Inverted(cur, status) == cur # NilState /\ cur.status # status

\* currentStatus != nil && currentStatus.status == status
SameStatus(cur, status) == cur # NilState /\ cur.status = status

\* Faulty variant: the retry starts the count again
AddAttempt_Reset(cur) == [cur EXCEPT !.attempt = 0]

\* atomic.AddUint32(&current.attempt, 1) on garbageCollector's copy
AddAttempt(cur) == [cur EXCEPT !.attempt = @ + 1]

\* Faulty variant: the handler gives up one attempt late
GaveUp_Late(cur) == cur.attempt > maxAttempts

\* current.attempt >= maxAttempts
GaveUp(cur) == cur.attempt >= maxAttempts

\* Faulty variant: the expired item stays in the map
Remaining_Kept(m, key) == m

\* delete(c.items, k)
Remaining(m, key) == [j \in DOMAIN m \ {key} |-> m[j]]

\* NewCache, NewStateManager, NewChecker: everything but the entries and
\* the notifications made so far
InitRest ==
  /\ now = 0
  /\ tickPending = FALSE
  /\ nextTick = evictDuration
  /\ cacheMu = "free"
  /\ stateMu = "free"
  /\ pc = [p \in Procs |-> IF p = "drainer" THEN "recv" ELSE "wait"]
  /\ addArgs = [p \in Procs |-> NoCall]
  /\ Events = <<>>
  /\ dId = "none"
  /\ dCur = NilState
  /\ dTrace = <<>>
  /\ dRet = "none"
  /\ swTodo = {}
  /\ swKey = "none"
  /\ swCur = NilState
  /\ onEvict = <<0>>
  /\ registered = <<>>
  /\ added = [k \in {} |-> 0]
  /\ clientOps = 0
  /\ got = [key |-> "none", value |-> "nil", ok |-> FALSE, op |-> 0]
  /\ lastEvict = [key |-> "none", value |-> "nil", calls |-> <<>>, op |-> 0]
  /\ rpcIds = <<>>
  /\ rpcPc = "recv"
  /\ acks = 0
  /\ swOut = NoOut
  /\ rootDone = FALSE
  /\ streamDone = FALSE
  /\ closed = FALSE
  /\ panicked = FALSE

Init ==
  /\ InitRest
  /\ items = [k \in {} |-> NilState]
  /\ lastDelivered = [s \in Ids |-> "none"]
  /\ downs = [s \in Ids |-> 0]
  /\ edges = [s \in Ids |-> 0]
  /\ edgeDowns = [s \in Ids |-> 0]
  /\ edgeDownOk = [s \in Ids |-> 0]
  /\ upOkEdge = [s \in Ids |-> 0]

\* ------------------------------------------------------------ clock

\* Time passes; the ticker of Cache.cleanup fires every evictDuration and
\* keeps at most one tick for a receiver that is busy.
AdvanceClock ==
  /\ now + Quantum <= MaxTime
  /\ now' = now + Quantum
  /\ IF now' >= nextTick
       THEN /\ tickPending' = TRUE
            /\ nextTick' = nextTick + evictDuration
       ELSE UNCHANGED <<tickPending, nextTick>>
  /\ UNCHANGED <<items, cacheMu, stateMu, pc, addArgs>>
  /\ UNCHANGED <<drainVars, sweepVars, obsVars>>
  /\ UNCHANGED <<libVars, streamVars, lifeVars>>

\* ------------------------------------------------------------ ingress

\* Faulty variant: the send does not wait for room in the channel
ChanSend_Unbounded(id) == ~closed /\ Events' = Append(Events, id)

\* Faulty variant: the newest id goes to the head of the channel
ChanSend_Front(id) ==
  /\ ~closed
  /\ Len(Events) < bufferSize
  /\ Events' = <<id>> \o Events

\* c.Events <- id on make(chan uuid.UUID, bufferSize): blocks while full
\* (on a closed channel the send panics: UpdatePanic)
ChanSend(id) ==
  /\ ~closed
  /\ Len(Events) < bufferSize
  /\ Events' = Append(Events, id)

\* Checker.Send: c.Events <- id (blocks while the channel is full)
CheckerSend(id) ==
  /\ Len(Events) < MaxPending
  /\ ChanSend(id)
  /\ UNCHANGED <<items, cacheMu, stateMu, pc, addArgs, dId, dCur, dTrace, dRet>>
  /\ UNCHANGED <<clockVars, sweepVars, obsVars>>
  /\ UNCHANGED <<libVars, streamVars, lifeVars>>

\* Faulty variant: the receive leaves the id in the channel
Rest_Peek(q) == q

\* what a receive leaves in the channel
Rest(q) == Tail(q)

\* Checker.Handler: case id, ok := <-c.Events, then c.state.Send(ctx, id, Up)
HandlerRecv ==
  /\ pc["drainer"] = "recv"
  /\ Events # <<>>
  /\ dId' = Head(Events)
  /\ Events' = Rest(Events)
  /\ pc' = [pc EXCEPT !["drainer"] = "get"]
  /\ UNCHANGED <<items, cacheMu, stateMu, addArgs, dCur, dTrace, dRet>>
  /\ UNCHANGED <<clockVars, sweepVars, obsVars>>
  /\ UNCHANGED <<libVars, streamVars, lifeVars>>

\* Faulty variant: an error of Send ends the loop
AfterSend_StopOnError(err) == IF err = "nil" THEN "recv" ELSE "done"

\* if err := c.state.Send(ctx, id, entities.Up); err != nil { logger.Err(err)... }
\* and the for loop goes round
AfterSend(err) == "recv"

\* Checker.Handler: Send has returned; if err != nil the error is logged, and
\* the loop goes back to the select
HandlerLoop ==
  /\ pc["drainer"] = "ret"
  /\ dId' = "none"
  /\ dCur' = NilState
  /\ dTrace' = <<>>
  /\ dRet' = "none"
  /\ pc' = [pc EXCEPT !["drainer"] = AfterSend(dRet)]
  /\ UNCHANGED <<items, cacheMu, stateMu, addArgs, Events>>
  /\ UNCHANGED <<clockVars, sweepVars, obsVars>>
  /\ UNCHANGED <<libVars, streamVars, lifeVars>>

\* ------------------------------------------------------------ cache

\* Cache.Get under c.mu.RLock: a pointer to the value, or nil
CacheGet(key) == IF key \in DOMAIN items THEN items[key].Value ELSE NilState

\* Cache.Get as its callers see it: (&v.Value, true) or (nil, false)
Get(key) ==
  IF key \in DOMAIN items
    THEN [value |-> items[key].Value, ok |-> TRUE]
    ELSE [value |-> "nil", ok |-> FALSE]

\* Faulty variant: a key that is present keeps its item
Stored_KeepOld(m, key, value, t, d) ==
  [k \in DOMAIN m \cup {key} |->
     IF k \in DOMAIN m THEN m[k] ELSE [Value |-> value, TTL |-> Deadline(t, d)]]

\* c.items[key] = &item{Value: value, TTL: c.clock.Now().Add(ttl)}
Stored(m, key, value, t, d) ==
  [k \in DOMAIN m \cup {key} |->
     IF k = key THEN [Value |-> value, TTL |-> Deadline(t, d)] ELSE m[k]]

\* Faulty variant: the new callback runs after the old ones
Compose_Fifo(fn, old) == Append(old, fn)

\* c.onEvict = func(key, value) { fn(key, value); old(key, value) }
Compose(fn, old) == <<fn>> \o old

\* Faulty variant: the lock lets everybody in
Unlocked_Always(mu) == TRUE

\* c.mu.Lock() and c.mu.RLock() go on when no writer holds c.mu (the sweeper
\* is the only goroutine that holds it over more than one step)
Unlocked(mu) == mu = "free"

\* Cache.Add: c.mu.Lock(); c.items[key] = &item{value, Now().Add(ttl)}.
\* The caller continues where it called from: Send returns nil to the
\* handler loop, garbageCollector returns (releasing s.mu) into the sweep.
CacheAdd(p) ==
  /\ pc[p] = "add"
  /\ Unlocked(cacheMu)
  /\ LET a == addArgs[p]
     IN  items' = Stored(items, a.key, a.value, now, a.ttl)
  /\ addArgs' = [addArgs EXCEPT ![p] = NoCall]
  /\ IF p = "drainer"
       THEN /\ pc' = [pc EXCEPT ![p] = "ret"]
            /\ dRet' = "nil"
            /\ edgeDowns' = [edgeDowns EXCEPT ![dId] = 0]
            /\ edgeDownOk' = [edgeDownOk EXCEPT ![dId] = 0]
            /\ UNCHANGED stateMu
       ELSE /\ pc' = [pc EXCEPT ![p] = "delete"]
            /\ stateMu' = "free"
            /\ UNCHANGED <<dRet, edgeDowns, edgeDownOk>>
  /\ UNCHANGED <<cacheMu, Events, dId, dCur, dTrace>>
  /\ UNCHANGED <<lastDelivered, downs, edges, upOkEdge>>
  /\ UNCHANGED <<clockVars, sweepVars>>
  /\ UNCHANGED <<libVars, streamVars, lifeVars>>

\* ------------------------------------------------------------ StateManager.Send

\* currentStatus, _ := s.cache.Get(id); the equal-status test; when it fails,
\* target, err := s.repo.Get(ctx, id); if err != nil { return err }
SendGet ==
  /\ pc["drainer"] = "get"
  /\ Unlocked(cacheMu)
  /\ dCur' = CacheGet(dId)
  /\ IF SameStatus(dCur', Up)
       THEN /\ pc' = [pc EXCEPT !["drainer"] = "add"]
            /\ addArgs' = [addArgs EXCEPT !["drainer"] =
                 [key |-> dId, value |-> NewState(Up), ttl |-> ttl]]
            /\ UNCHANGED <<dTrace, dRet>>
       ELSE LET r == RepoGet(dId)
            IN  /\ dTrace' = Append(dTrace, [op |-> "repo.Get", id |-> dId, err |-> r.err])
                /\ pc' = [pc EXCEPT !["drainer"] = IF r.err = "nil" THEN "api" ELSE "ret"]
                /\ dRet' = IF r.err = "nil" THEN dRet ELSE r.err
                /\ UNCHANGED addArgs
  /\ UNCHANGED <<items, cacheMu, stateMu, Events, dId>>
  /\ UNCHANGED <<clockVars, sweepVars, obsVars>>
  /\ UNCHANGED <<libVars, streamVars, lifeVars>>

\* s.api.Send(ctx, target, status): the transport answers or fails
SendApi ==
  /\ pc["drainer"] = "api"
  /\ \E out \in Outcomes(SendCtx) :
       /\ dTrace' = Append(dTrace, [op |-> "api.Send", url |-> RepoGet(dId).target,
                                     status |-> Up, ok |-> ApiOk(out)])
       /\ IF ApiOk(out)
            THEN /\ pc' = [pc EXCEPT !["drainer"] = "add"]
                 /\ addArgs' = [addArgs EXCEPT !["drainer"] =
                      [key |-> dId, value |-> NewState(Up), ttl |-> ttl]]
                 /\ lastDelivered' = [lastDelivered EXCEPT ![dId] = Up]
                 /\ upOkEdge' = [upOkEdge EXCEPT ![dId] = @ + 1]
                 /\ UNCHANGED dRet
            ELSE /\ pc' = [pc EXCEPT !["drainer"] = "ret"]
                 /\ dRet' = IF out = Canceled THEN "context canceled" ELSE "transport error"
                 /\ UNCHANGED <<addArgs, lastDelivered, upOkEdge>>
  /\ UNCHANGED <<items, cacheMu, stateMu, Events, dId, dCur>>
  /\ UNCHANGED <<downs, edges, edgeDowns, edgeDownOk>>
  /\ UNCHANGED <<clockVars, sweepVars>>
  /\ UNCHANGED <<libVars, streamVars, lifeVars>>

\* ------------------------------------------------------------ Cache.cleanup

\* for range ticker.C { c.removeExpiredItems() }: c.mu.Lock(), start the range
SweepStart ==
  /\ pc["sweeper"] = "wait"
  /\ tickPending
  /\ Unlocked(cacheMu)
  /\ tickPending' = FALSE
  /\ cacheMu' = "sweeper"
  /\ swTodo' = DOMAIN items
  /\ pc' = [pc EXCEPT !["sweeper"] = "scan"]
  /\ UNCHANGED <<now, nextTick, items, stateMu, addArgs, swKey, swCur, swOut>>
  /\ UNCHANGED <<drainVars, obsVars>>
  /\ UNCHANGED <<libVars, streamVars, lifeVars>>

\* Faulty variant: the item is deleted before the callback is called
AtEvict_Deleted(m, key) == [k \in DOMAIN m \ {key} |-> m[k]]

\* the map at the call c.onEvict(k, item.Value): delete(c.items, k) is the
\* statement after the call
AtEvict(m, key) == m

\* one round of the range loop: the expiry test and, for an expired item, the
\* call of onEvict, which is garbageCollector up to its notifier call:
\* if current.attempt >= maxAttempts { return }; s.mu.Lock();
\* target, err := s.repo.Get(ctx, id); on an error attempt+1 and cache.Add
SweepNext ==
  /\ pc["sweeper"] = "scan"
  /\ \E k \in swTodo :
       /\ swTodo' = swTodo \ {k}
       /\ IF Expired(items[k], now)
            THEN /\ swKey' = k
                 /\ edges' = [edges EXCEPT ![k] =
                                 IF items[k].Value.attempt = 0 THEN @ + 1 ELSE @]
                 /\ IF GaveUp(items[k].Value)
                      THEN /\ pc' = [pc EXCEPT !["sweeper"] = "delete"]
                           /\ swCur' = items[k].Value
                           /\ UNCHANGED <<stateMu, addArgs>>
                      ELSE /\ stateMu = "free"
                           /\ stateMu' = "sweeper"
                           /\ IF RepoGet(k).err = "nil"
                                THEN /\ pc' = [pc EXCEPT !["sweeper"] = "gcSend"]
                                     /\ swCur' = items[k].Value
                                     /\ UNCHANGED addArgs
                                ELSE /\ swCur' = AddAttempt(items[k].Value)
                                     /\ addArgs' = [addArgs EXCEPT !["sweeper"] =
                                          [key |-> k, value |-> swCur', ttl |-> timeout]]
                                     /\ pc' = [pc EXCEPT !["sweeper"] = "add"]
            ELSE UNCHANGED <<swKey, swCur, pc, edges, stateMu, addArgs>>
       /\ items' = IF Expired(items[k], now) THEN AtEvict(items, k) ELSE items
  /\ UNCHANGED <<cacheMu, swOut>>
  /\ UNCHANGED <<lastDelivered, downs, edgeDowns, edgeDownOk, upOkEdge>>
  /\ UNCHANGED <<clockVars, drainVars>>
  /\ UNCHANGED <<libVars, streamVars, lifeVars>>

\* the range is over: the deferred c.mu.Unlock()
SweepEnd ==
  /\ pc["sweeper"] = "scan"
  /\ swTodo = {}
  /\ cacheMu' = "free"
  /\ pc' = [pc EXCEPT !["sweeper"] = "wait"]
  /\ UNCHANGED <<items, stateMu, addArgs>>
  /\ UNCHANGED <<clockVars, drainVars, sweepVars, obsVars>>
  /\ UNCHANGED <<libVars, streamVars, lifeVars>>

\* delete(c.items, k), after the callback returned
SweepDelete ==
  /\ pc["sweeper"] = "delete"
  /\ items' = Remaining(items, swKey)
  /\ upOkEdge' = [upOkEdge EXCEPT ![swKey] = 0]
  /\ swKey' = "none"
  /\ swCur' = NilState
  /\ swOut' = NoOut
  /\ pc' = [pc EXCEPT !["sweeper"] = "scan"]
  /\ UNCHANGED <<cacheMu, stateMu, addArgs, swTodo>>
  /\ UNCHANGED <<lastDelivered, downs, edges, edgeDowns, edgeDownOk>>
  /\ UNCHANGED <<clockVars, drainVars>>
  /\ UNCHANGED <<libVars, streamVars, lifeVars>>

\* ------------------------------------------------------------ garbageCollector

\* err = s.api.Send(ctx, target, entities.Down); on an error attempt+1 and
\* cache.Add; on success return (the deferred s.mu.Unlock())
GcApiSend ==
  /\ pc["sweeper"] = "gcSend"
  /\ downs' = [downs EXCEPT ![swKey] = @ + 1]
  /\ edgeDowns' = [edgeDowns EXCEPT ![swKey] = @ + 1]
  /\ \E out \in Outcomes(GcCtx) :
       /\ swOut' = out
       /\ IF ApiOk(out)
         THEN /\ pc' = [pc EXCEPT !["sweeper"] = "delete"]
              /\ stateMu' = "free"
              /\ lastDelivered' = [lastDelivered EXCEPT ![swKey] = Down]
              /\ edgeDownOk' = [edgeDownOk EXCEPT ![swKey] = @ + 1]
              /\ UNCHANGED <<swCur, addArgs>>
         ELSE /\ swCur' = AddAttempt(swCur)
              /\ addArgs' = [addArgs EXCEPT !["sweeper"] =
                   [key |-> swKey, value |-> swCur', ttl |-> timeout]]
              /\ pc' = [pc EXCEPT !["sweeper"] = "add"]
              /\ UNCHANGED <<stateMu, lastDelivered, edgeDownOk>>
  /\ UNCHANGED <<items, cacheMu, swTodo, swKey, edges, upOkEdge>>
  /\ UNCHANGED <<clockVars, drainVars>>
  /\ UNCHANGED <<libVars, streamVars, lifeVars>>

\* ------------------------------------------------------------ specification

Drainer == HandlerRecv \/ HandlerLoop \/ SendGet \/ SendApi \/ CacheAdd("drainer")

Sweeper ==
  \/ SweepStart \/ SweepNext \/ SweepEnd \/ SweepDelete
  \/ GcApiSend \/ CacheAdd("sweeper")

Next ==
  \/ AdvanceClock
  \/ \E id \in Ids : CheckerSend(id)
  \/ HandlerRecv
  \/ HandlerLoop
  \/ SendGet
  \/ SendApi
  \/ \E p \in Procs : CacheAdd(p)
  \/ SweepStart
  \/ SweepNext
  \/ SweepEnd
  \/ SweepDelete
  \/ GcApiSend

Spec == Init /\ [][Next]_vars

\* The Go scheduler runs every goroutine that can take a step, and time
\* passes; agents are free to stop sending.
FairSpec == Spec /\ WF_vars(AdvanceClock) /\ WF_vars(Drainer) /\ WF_vars(Sweeper)

\* ------------------------------------------------------------ one stream

\* GRPCServer.Update on one stream whose agent reports one service, with the
\* channel free to fill up to bufferSize.
StreamIds == {"s1"}

\* A request carries at most MaxBatch ids.
MaxBatch == 2

Requests == UNION {[1..n -> StreamIds] : n \in 0..MaxBatch}

\* Responses on one stream are counted up to MaxAcks.
MaxAcks == 2

\* req, err := stream.Recv() returns a request
UpdateRecv(ids) ==
  /\ rpcPc = "recv"
  /\ ~streamDone
  /\ rpcIds' = ids
  /\ rpcPc' = "loop"
  /\ UNCHANGED acks
  /\ UNCHANGED <<items, cacheMu, stateMu, pc, addArgs>>
  /\ UNCHANGED <<clockVars, drainVars, sweepVars, obsVars, libVars, lifeVars>>

\* req, err := stream.Recv(); if err != nil { return err }
UpdateRecvErr ==
  /\ rpcPc = "recv"
  /\ streamDone
  /\ rpcPc' = "done"
  /\ UNCHANGED <<rpcIds, acks>>
  /\ UNCHANGED <<items, cacheMu, stateMu, pc, addArgs>>
  /\ UNCHANGED <<clockVars, drainVars, sweepVars, obsVars, libVars, lifeVars>>

\* for _, id := range req.GetIds() { s.checker.Send(sid) }: one round
UpdateSend ==
  /\ rpcPc = "loop"
  /\ rpcIds # <<>>
  /\ ChanSend(Head(rpcIds))
  /\ rpcIds' = Tail(rpcIds)
  /\ UNCHANGED <<rpcPc, acks>>
  /\ UNCHANGED <<items, cacheMu, stateMu, pc, addArgs, dId, dCur, dTrace, dRet>>
  /\ UNCHANGED <<clockVars, sweepVars, obsVars, libVars, lifeVars>>

\* Faulty variant: the response does not wait for the loop over the ids
AllEnqueued_Early(ids) == TRUE

\* the loop over req.GetIds() has run to its end
AllEnqueued(ids) == ids = <<>>

\* if err := stream.SendMsg(&way.UpdateResponse{}); err != nil { return err },
\* then back to stream.Recv()
UpdateAck ==
  /\ rpcPc = "loop"
  /\ AllEnqueued(rpcIds)
  /\ IF streamDone
       THEN /\ rpcPc' = "done"
            /\ UNCHANGED acks
       ELSE /\ rpcPc' = "recv"
            /\ acks' = IF acks < MaxAcks THEN acks + 1 ELSE acks
  /\ UNCHANGED rpcIds
  /\ UNCHANGED <<items, cacheMu, stateMu, pc, addArgs>>
  /\ UNCHANGED <<clockVars, drainVars, sweepVars, obsVars, libVars, lifeVars>>

StreamNext ==
  \/ \E ids \in Requests : UpdateRecv(ids)
  \/ UpdateSend
  \/ UpdateAck
  \/ AdvanceClock
  \/ HandlerRecv
  \/ HandlerLoop
  \/ SendGet
  \/ SendApi
  \/ \E p \in Procs : CacheAdd(p)
  \/ SweepStart
  \/ SweepNext
  \/ SweepEnd
  \/ SweepDelete
  \/ GcApiSend

StreamSpec == Init /\ [][StreamNext]_vars

\* ------------------------------------------------------------ serve and shut down

\* One agent on one stream reports a registered and an unknown service; the
\* requests arrive while the channel holds fewer than MaxPending ids.
AgentIds == {"s1", "x"}

Batches == UNION {[1..n -> AgentIds] : n \in 0..MaxBatch}

AgentRecv(ids) ==
  /\ Len(Events) + Len(ids) <= MaxPending
  /\ UpdateRecv(ids)

\* signal.NotifyContext(cmd.Context(), os.Interrupt): the interrupt arrives
Cancel ==
  /\ ~rootDone
  /\ rootDone' = TRUE
  /\ UNCHANGED <<streamDone, closed, panicked>>
  /\ UNCHANGED <<items, cacheMu, stateMu, pc, addArgs>>
  /\ UNCHANGED <<clockVars, drainVars, sweepVars, obsVars, libVars, streamVars>>

\* checkerUsecase: go func() { <-ctx.Done(); b.checker.Close() }(), and
\* Checker.Close: close(c.Events)
WatcherClose ==
  /\ rootDone
  /\ ~closed
  /\ ~panicked
  /\ closed' = TRUE
  /\ UNCHANGED <<rootDone, streamDone, panicked>>
  /\ UNCHANGED <<items, cacheMu, stateMu, pc, addArgs>>
  /\ UNCHANGED <<clockVars, drainVars, sweepVars, obsVars, libVars, streamVars>>

\* RunGRPCServer: go func() { <-ctx.Done(); server.Stop() }(): the
\* connections are closed and the contexts of their streams cancelled
ServerStop ==
  /\ rootDone
  /\ ~streamDone
  /\ ~panicked
  /\ streamDone' = TRUE
  /\ UNCHANGED <<rootDone, closed, panicked>>
  /\ UNCHANGED <<items, cacheMu, stateMu, pc, addArgs>>
  /\ UNCHANGED <<clockVars, drainVars, sweepVars, obsVars, libVars, streamVars>>

\* The agent closes its half of the stream or drops the connection: the next
\* stream.Recv() of GRPCServer.Update returns an error
AgentDisconnect ==
  /\ ~rootDone
  /\ ~streamDone
  /\ streamDone' = TRUE
  /\ UNCHANGED <<rootDone, closed, panicked>>
  /\ UNCHANGED <<items, cacheMu, stateMu, pc, addArgs>>
  /\ UNCHANGED <<clockVars, drainVars, sweepVars, obsVars, libVars, streamVars>>

\* Checker.Handler: case <-ctx.Done(): return, or the receive of
\* case id, ok := <-c.Events finds the channel closed and empty: return.
\* With ids in the channel and the context done the select takes either case.
HandlerStop ==
  /\ pc["drainer"] = "recv"
  /\ rootDone \/ (closed /\ Events = <<>>)
  /\ pc' = [pc EXCEPT !["drainer"] = "done"]
  /\ UNCHANGED <<items, cacheMu, stateMu, addArgs>>
  /\ UNCHANGED <<clockVars, drainVars, sweepVars, obsVars, libVars, streamVars, lifeVars>>

\* Checker.Send: c.Events <- id on the channel Checker.Close has closed: the
\* send panics, also when it was blocked at the time of the close, and the
\* panic of a goroutine ends the process
UpdatePanic ==
  /\ rpcPc = "loop"
  /\ rpcIds # <<>>
  /\ closed
  /\ panicked' = TRUE
  /\ pc' = [p \in Procs |-> "dead"]
  /\ rpcPc' = "dead"
  /\ UNCHANGED <<rpcIds, acks, rootDone, streamDone, closed>>
  /\ UNCHANGED <<items, cacheMu, stateMu, addArgs>>
  /\ UNCHANGED <<clockVars, drainVars, sweepVars, obsVars, libVars>>

Handler == UpdateRecvErr \/ UpdateSend \/ UpdateAck \/ UpdatePanic

ServeNext ==
  \/ \E ids \in Batches : AgentRecv(ids)
  \/ UpdateRecvErr
  \/ UpdateSend
  \/ UpdateAck
  \/ UpdatePanic
  \/ AgentDisconnect
  \/ Cancel
  \/ WatcherClose
  \/ ServerStop
  \/ HandlerStop
  \/ AdvanceClock
  \/ HandlerRecv
  \/ HandlerLoop
  \/ SendGet
  \/ SendApi
  \/ \E p \in Procs : CacheAdd(p)
  \/ SweepStart
  \/ SweepNext
  \/ SweepEnd
  \/ SweepDelete
  \/ GcApiSend

ServeSpec == Init /\ [][ServeNext]_vars

\* Every goroutine that can take a step is run, and time passes; the agent is
\* free to stop sending, and the interrupt need not come.
FairServeSpec ==
  /\ ServeSpec
  /\ WF_vars(AdvanceClock)
  /\ WF_vars(Drainer \/ HandlerStop)
  /\ WF_vars(Sweeper)
  /\ WF_vars(Handler)
  /\ WF_vars(WatcherClose)
  /\ WF_vars(ServerStop)

\* ------------------------------------------------------------ the cache alone

\* Cache[K, V] under a client that adds, reads and registers callbacks, as
\* the test suite does.  The callbacks record their call and return; 0 names
\* the callback the cache was constructed with.
Keys == {"k1", "k2"}
Values == {"hello", "world"}
Ttls == {evictDuration, 2 * evictDuration}

\* At most MaxCallbacks callbacks are registered.
MaxCallbacks == 2

\* The client makes at most MaxOps calls.
MaxOps == 3

NoItem == [Value |-> "nil", TTL |-> 0]

\* cache.Add(key, value, ttl) by the client
ClientAdd(key, value, d) ==
  /\ cacheMu = "free"
  /\ clientOps < MaxOps
  /\ clientOps' = clientOps + 1
  /\ items' = Stored(items, key, value, now, d)
  /\ added' = [k \in DOMAIN added \cup {key} |->
                 IF k = key
                   THEN [value |-> value, at |-> now, ttl |-> d, evicts |-> 0,
                         old |-> IF key \in DOMAIN items THEN items[key] ELSE NoItem]
                   ELSE added[k]]
  /\ UNCHANGED <<cacheMu, stateMu, pc, addArgs, onEvict, registered, got, lastEvict>>
  /\ UNCHANGED <<clockVars, drainVars, sweepVars, obsVars, streamVars, lifeVars>>

\* cache.Get(key) by the client
ClientGet(key) ==
  /\ cacheMu = "free"
  /\ clientOps < MaxOps
  /\ clientOps' = clientOps + 1
  /\ got' = [key |-> key, value |-> Get(key).value, ok |-> Get(key).ok, op |-> clientOps']
  /\ UNCHANGED <<items, cacheMu, stateMu, pc, addArgs, onEvict, registered, added, lastEvict>>
  /\ UNCHANGED <<clockVars, drainVars, sweepVars, obsVars, streamVars, lifeVars>>

\* cache.OnEvict(fn) by the client; the callbacks are numbered as registered
ClientOnEvict ==
  /\ cacheMu = "free"
  /\ clientOps < MaxOps
  /\ clientOps' = clientOps + 1
  /\ Len(registered) < MaxCallbacks
  /\ LET fn == Len(registered) + 1
     IN  /\ onEvict' = Compose(fn, onEvict)
         /\ registered' = Append(registered, fn)
  /\ UNCHANGED <<items, cacheMu, stateMu, pc, addArgs, added, got, lastEvict>>
  /\ UNCHANGED <<clockVars, drainVars, sweepVars, obsVars, streamVars, lifeVars>>

\* one round of the range loop of removeExpiredItems with callbacks that
\* return: the expiry test, c.onEvict(k, item.Value), delete(c.items, k)
EvictNext ==
  /\ pc["sweeper"] = "scan"
  /\ \E k \in swTodo :
       /\ swTodo' = swTodo \ {k}
       /\ IF Expired(items[k], now)
            THEN /\ lastEvict' = [key |-> k, value |-> items[k].Value,
                                  calls |-> onEvict, op |-> clientOps]
                 /\ added' = [added EXCEPT ![k].evicts = @ + 1]
                 /\ items' = Remaining(items, k)
            ELSE UNCHANGED <<lastEvict, added, items>>
  /\ UNCHANGED <<cacheMu, stateMu, pc, addArgs, swKey, swCur, swOut>>
  /\ UNCHANGED <<onEvict, registered, got, clientOps>>
  /\ UNCHANGED <<clockVars, drainVars, obsVars, streamVars, lifeVars>>

CacheNext ==
  \/ AdvanceClock
  \/ \E key \in Keys, value \in Values, d \in Ttls : ClientAdd(key, value, d)
  \/ \E key \in Keys : ClientGet(key)
  \/ ClientOnEvict
  \/ SweepStart
  \/ EvictNext
  \/ SweepEnd

CacheSpec == Init /\ [][CacheNext]_vars

\* ------------------------------------------------------------ the handler alone

\* garbageCollector(id, current) is handed whatever the cache stored.  Its
\* attempt test is exercised on an entry of s1 whose attempt is drawn from
\* GcAttempts, stored with the handler's own ttl, after as many failed Down
\* notifications as the attempt counts.
GcAttempts == maxAttempts..(maxAttempts + 1)

GcInit ==
  /\ InitRest
  /\ \E a \in GcAttempts :
       /\ items = [k \in {"s1"} |->
                     [Value |-> [status |-> Up, attempt |-> a], TTL |-> timeout]]
       /\ downs = [s \in Ids |-> IF s = "s1" THEN a ELSE 0]
       /\ edgeDowns = [s \in Ids |-> IF s = "s1" THEN a ELSE 0]
  /\ lastDelivered = [s \in Ids |-> IF s = "s1" THEN Up ELSE "none"]
  /\ edges = [s \in Ids |-> IF s = "s1" THEN 1 ELSE 0]
  /\ edgeDownOk = [s \in Ids |-> 0]
  /\ upOkEdge = [s \in Ids |-> IF s = "s1" THEN 1 ELSE 0]

GcSpec == GcInit /\ [][Next]_vars

\* ------------------------------------------------------------ claims

Configured == DOMAIN storage

\* Up notifications that the Send in progress has delivered
OwnUps == Len(SelectSeq(dTrace, LAMBDA c : c.op = "api.Send" /\ c.ok))

\* The Send in progress (or just returned) took the equal-status path.
NoCalls == dTrace = <<>>

\* The drainer takes the step that ends the named position.
DrainerLeaves(at) == pc["drainer"] = at /\ pc'["drainer"] # at

UpEntry(t) == [Value |-> [status |-> Up, attempt |-> 0], TTL |-> t + ttl]

\* C1: when a Send for a configured id reaches its cache write while the last
\* notification delivered for that id is Down, that Send has emitted exactly
\* one Up notification (a heartbeat handled after a successful Down emits Up).
C1_UpAfterDown ==
  \A s \in Configured :
    (pc["drainer"] = "add" /\ dId = s /\ (lastDelivered[s] = Down \/ OwnUps > 0))
      => OwnUps = 1 /\ lastDelivered[s] = Up

\* C2: the eviction handler on a failure path is never left waiting in
\* cache.Add for the cache lock: the lock is free for it to take.
C2_NoDeadlock == pc["sweeper"] = "add" => cacheMu = "free"

\* Down notifications of the current edge of s that failed
Failed(s) == edgeDowns[s] - edgeDownOk[s]

\* A heartbeat for s is being handled.
Handling(s) == dId = s

\* C3: never more than 5 Down attempts per edge, and once the first Down
\* attempt of an edge has failed the attempts go on until there have been 5,
\* unless one succeeds or a further heartbeat for the id arrives.
C3_FiveAttempts ==
  /\ [](\A s \in Configured : edgeDowns[s] <= maxAttempts)
  /\ \A s \in Configured :
       (Failed(s) >= 1 /\ edgeDownOk[s] = 0)
         ~> (edgeDowns[s] = maxAttempts \/ edgeDownOk[s] > 0 \/ Handling(s))

\* C4: a failed Down notification for an entry with attempt a < 5 leads to
\* the end of that sweep with the entry in the cache, status Up, attempt
\* a + 1 and a deadline at most 15 s ahead.
C4_Reinserted ==
  \A s \in Configured : \A a \in 1..maxAttempts :
    (pc["sweeper"] = "add" /\ swKey = s /\ swCur.attempt = a)
      ~> /\ pc["sweeper"] = "wait"
         /\ s \in DOMAIN items
         /\ items[s].Value = [status |-> Up, attempt |-> a]
         /\ items[s].TTL <= now + timeout

\* C5: at most one Down notification succeeds per eviction cycle of an
\* entry, and at most one Up notification succeeds per transition from absent
\* to Up.
C5_OnePerEdge ==
  \A s \in Ids : edgeDownOk[s] <= 1 /\ upOkEdge[s] <= 1

C5_Witness ==
  \E s \in Configured : edgeDownOk[s] = 1 /\ upOkEdge[s] = 1 /\ edges[s] = 2

\* C6: the Down notifications emitted for s number at most
\* 1 + 4 * (evictions of an entry of s with attempt 0).
C6_DownBound ==
  \A s \in Ids : downs[s] <= 1 + (maxAttempts - 1) * edges[s]

C6_Witness == \E s \in Configured : downs[s] = 2

\* C7: a Send that finds an Up entry goes straight to the cache write, calling
\* neither the directory nor the notifier, and its write leaves the entry
\* {Up, attempt 0} with deadline now + 60 s and returns nil.
C7_EqualStatusRefresh ==
  [][ /\ (/\ DrainerLeaves("get")
          /\ dId \in DOMAIN items
          /\ items[dId].Value.status = Up)
        => /\ pc'["drainer"] = "add"
           /\ dTrace' = <<>>
           /\ obsVars' = obsVars
      /\ (DrainerLeaves("add") /\ NoCalls)
        => /\ dRet' = "nil"
           /\ dTrace' = <<>>
           /\ dId \in DOMAIN items'
           /\ items'[dId] = UpEntry(now)
           /\ <<lastDelivered, downs, upOkEdge>>' = <<lastDelivered, downs, upOkEdge>>
    ]_vars

C7_Witness ==
  /\ pc["drainer"] = "ret"
  /\ dRet = "nil"
  /\ NoCalls
  /\ dCur = [status |-> Up, attempt |-> 0]

\* C8: a Send for a configured id with no cache entry whose notifier call
\* succeeds has made exactly one notifier call, Up to the id's URL, before its
\* cache write; the write creates the entry {Up, attempt 0} with deadline
\* now + 60 s.
C8_FirstHeartbeat ==
  [][ /\ (DrainerLeaves("api") /\ dTrace'[Len(dTrace')].ok)
        => /\ pc'["drainer"] = "add"
           /\ items' = items
           /\ dId \notin DOMAIN items
      /\ (DrainerLeaves("add") /\ ~NoCalls)
        => /\ dCur = NilState
           /\ dTrace = << [op |-> "repo.Get", id |-> dId, err |-> "nil"],
                          [op |-> "api.Send", url |-> storage[dId],
                           status |-> Up, ok |-> TRUE] >>
           /\ dId \notin DOMAIN items
           /\ items' = [k \in DOMAIN items \cup {dId} |->
                          IF k = dId THEN UpEntry(now) ELSE items[k]]
           /\ dRet' = "nil"
    ]_vars

C8_Witness ==
  /\ pc["drainer"] = "ret"
  /\ dRet = "nil"
  /\ OwnUps = 1
  /\ dId \in DOMAIN items
  /\ items[dId] = UpEntry(now)

\* A Down notification has been attempted for the entry of s in the cache.
DownTried(s) == edgeDowns[s] > 0

\* C9: an Up entry for s in the cache, with a sweep tick after its deadline
\* still to come, leads to a Down notification attempt for s unless a further
\* heartbeat for s is handled.
C9_EventuallyDown ==
  \A s \in Configured :
    (/\ s \in DOMAIN items
     /\ items[s].Value.status = Up
     /\ items[s].TTL + evictDuration <= MaxTime
     /\ ~DownTried(s)
     /\ ~Handling(s))
      ~> (DownTried(s) \/ Handling(s))

\* C10: an entry is handed to the eviction callback, notified Down or removed
\* only by a sweep, and only when its deadline is strictly earlier than the
\* current time.
C10_OnlyExpired ==
  [][ \A s \in Ids :
        (\/ downs'[s] > downs[s]
         \/ (swKey' = s /\ swKey # s)
         \/ (s \in DOMAIN items /\ s \notin DOMAIN items'))
          => /\ s \in DOMAIN items
             /\ items[s].TTL < now
             /\ cacheMu = "sweeper"
    ]_vars

\* a sweep that kept s1, whose deadline is the current time, and evicted s2
C10_Witness ==
  /\ pc["sweeper"] = "delete"
  /\ swKey = "s2"
  /\ "s1" \in DOMAIN items
  /\ "s1" \notin swTodo
  /\ items["s1"].TTL = now

\* C11: once a Down notification for s has succeeded, the handler re-inserts
\* nothing and the sweep removes the entry, so s has no entry from the removal
\* on; a further Down notification for s is attempted only after a heartbeat
\* for s has been written to the cache and that entry has expired.
C11_NoReinsert ==
  /\ [](\A s \in Configured :
         edgeDownOk[s] >= 1 =>
           IF pc["sweeper"] = "delete" /\ swKey = s
             THEN addArgs["sweeper"] = NoCall
             ELSE s \notin DOMAIN items)
  /\ [][\A s \in Configured :
          downs'[s] > downs[s] =>
            /\ edgeDownOk[s] = 0
            /\ s \in DOMAIN items
            /\ items[s].TTL < now]_vars

\* the second successful Down notification for s, its sweep over
C11_Witness ==
  \E s \in Configured :
    /\ edgeDownOk[s] = 1
    /\ downs[s] = 2
    /\ pc["sweeper"] = "wait"
    /\ s \notin DOMAIN items

\* C12: a Send whose Up notification fails returns the transport error and
\* writes nothing: the id has no entry when the Send returns, and a Send for a
\* configured id with no entry goes on to the notifier.
C12_UpFailure ==
  /\ []((pc["drainer"] = "ret" /\ dRet = "transport error")
          => dId \notin DOMAIN items /\ addArgs["drainer"] = NoCall)
  /\ [][ /\ (DrainerLeaves("api") /\ ~dTrace'[Len(dTrace')].ok)
            => /\ pc'["drainer"] = "ret"
               /\ dRet' = "transport error"
               /\ dId \notin DOMAIN items
               /\ items' = items
               /\ addArgs' = addArgs
               /\ obsVars' = obsVars
         /\ (DrainerLeaves("get") /\ dId \in Configured /\ dId \notin DOMAIN items)
            => /\ pc'["drainer"] = "api"
               /\ items' = items
      ]_vars

C12_Witness ==
  /\ pc["drainer"] = "ret"
  /\ dRet = "transport error"
  /\ dId \in Configured
  /\ dId \notin DOMAIN items

\* C13: a Send for an id that the directory does not know returns
\* ErrWebhookNotFound after the directory lookup alone: no notifier call, no
\* cache write; the cache never holds an entry under such an id.
C13_UnknownId ==
  /\ [](\A k \in DOMAIN items : k \in Configured)
  /\ []((dId \in Ids \ Configured)
          => /\ pc["drainer"] \in {"get", "ret"}
             /\ addArgs["drainer"] = NoCall
             /\ \A i \in 1..Len(dTrace) : dTrace[i].op = "repo.Get")
  /\ [][(DrainerLeaves("get") /\ dId \notin Configured)
          => /\ pc'["drainer"] = "ret"
             /\ dRet' = "ErrWebhookNotFound"
             /\ items' = items
             /\ addArgs' = addArgs
             /\ obsVars' = obsVars]_vars

\* an unknown id turned away while the same id waits in the queue again
C13_Witness ==
  /\ pc["drainer"] = "ret"
  /\ dId = "x"
  /\ dRet = "ErrWebhookNotFound"
  /\ Events # <<>>
  /\ Head(Events) = "x"
  /\ items # << >>

\* C14: when the sweep hands the handler an entry with attempt >= 5, the
\* handler returns at once: no notification, no lock, no cache.Add; the sweep
\* then removes the entry, and a later Send for the id, finding no entry,
\* goes to the notifier and writes the entry with attempt 0.
C14_GiveUp ==
  [][ \A s \in Configured :
        /\ (swKey' = s /\ swKey # s /\ items[s].Value.attempt >= maxAttempts)
             => /\ pc'["sweeper"] = "delete"
                /\ addArgs' = addArgs
                /\ stateMu' = stateMu
                /\ <<lastDelivered, downs, edgeDowns>>' = <<lastDelivered, downs, edgeDowns>>
        /\ (/\ pc["sweeper"] = "delete" /\ pc'["sweeper"] # "delete"
            /\ swKey = s /\ swCur.attempt >= maxAttempts)
             => /\ s \notin DOMAIN items'
                /\ downs' = downs
        /\ (DrainerLeaves("get") /\ dId = s /\ s \notin DOMAIN items)
             => pc'["drainer"] = "api"
        /\ (DrainerLeaves("add") /\ dId = s)
             => items'[s].Value = [status |-> Up, attempt |-> 0]
    ]_vars

\* the entry with attempt 6 went without a seventh notification, and the
\* heartbeat that followed was notified Up and stored with attempt 0
C14_Witness ==
  /\ downs["s1"] = maxAttempts + 1
  /\ pc["drainer"] = "ret"
  /\ dId = "s1"
  /\ dRet = "nil"
  /\ OwnUps = 1
  /\ "s1" \in DOMAIN items
  /\ items["s1"].Value = [status |-> Up, attempt |-> 0]

\* The step is a Get of the client / an Add of k that changes something / an
\* eviction by the sweep.
GetStep == got'.op = clientOps' /\ clientOps' > clientOps
AddStep(k) ==
  /\ clientOps' > clientOps
  /\ k \in DOMAIN added'
  /\ (k \in DOMAIN added => added'[k] # added[k])
EvictStep == lastEvict' # lastEvict

\* The last Add of k is still within its ttl.
Live(k) == k \in DOMAIN added /\ added[k].at <= now /\ now < added[k].at + added[k].ttl

\* C15: from an Add(k, v, t) at t0 until the clock reaches t0 + t, and unless
\* k is added again, a Get(k) returns (v, true), whatever sweeps run meanwhile.
C15_ReadBack ==
  /\ [](\A k \in Keys : Live(k) => Get(k) = [value |-> added[k].value, ok |-> TRUE])
  /\ [][\A k \in Keys :
          (GetStep /\ got'.key = k /\ Live(k))
            => got'.value = added[k].value /\ got'.ok]_vars

\* k read back, after its Add, after time has passed, and after a sweep that
\* evicted the other key
C15_Witness ==
  \E k \in Keys :
    /\ Live(k)
    /\ added[k].at < now
    /\ got = [key |-> k, value |-> added[k].value, ok |-> TRUE, op |-> clientOps]
    /\ lastEvict.key \in Keys \ {k}
    /\ lastEvict.op < got.op

\* C16: an entry whose deadline has passed, with a sweep tick still to come,
\* is eventually gone from the cache unless it is added again.
C16_EventuallyRemoved ==
  \A s \in Configured :
    (/\ s \in DOMAIN items
     /\ items[s].TTL < now
     /\ (tickPending \/ nextTick <= MaxTime))
      ~> (s \notin DOMAIN items \/ items[s].TTL >= now)

\* C17: every removal by a sweep comes with one call of the callback, with
\* the key and the value of the entry removed, which had expired; nothing else
\* removes an entry or calls the callback, a Get in particular; between two
\* Adds of a key the callback runs at most once for it.
C17_OncePerRemoval ==
  /\ [](\A k \in DOMAIN added :
         added[k].evicts = IF k \in DOMAIN items THEN 0 ELSE 1)
  /\ [][ /\ EvictStep
            => LET k == lastEvict'.key
               IN  /\ pc["sweeper"] = "scan"
                   /\ k \in DOMAIN items
                   /\ k \notin DOMAIN items'
                   /\ lastEvict'.value = items[k].Value
                   /\ items[k].TTL < now
                   /\ Len(lastEvict'.calls) >= 1
         /\ \A k \in DOMAIN items :
              k \notin DOMAIN items' => EvictStep /\ lastEvict'.key = k
         /\ GetStep => lastEvict' = lastEvict /\ items' = items
      ]_vars

\* k1 evicted once and then read without effect, in a sweep that kept k2,
\* whose deadline was the time of the sweep
C17_Witness ==
  /\ lastEvict.key = "k1"
  /\ "k1" \in DOMAIN added
  /\ added["k1"].evicts = 1
  /\ got.key = "k1" /\ ~got.ok /\ got.op > lastEvict.op
  /\ "k2" \in DOMAIN items
  /\ items["k2"].TTL = now
  /\ pc["sweeper"] = "wait"

Reverse(seq) == [i \in 1..Len(seq) |-> seq[Len(seq) + 1 - i]]

\* C18: an eviction calls the registered callbacks in the reverse of their
\* registration order, each once, and then the callback of the construction.
C18_Lifo ==
  /\ [](onEvict = Reverse(registered) \o <<0>>)
  /\ [][EvictStep => lastEvict'.calls = Reverse(registered) \o <<0>>]_vars

C18_Witness == lastEvict.key \in Keys /\ lastEvict.calls = <<2, 1, 0>>

\* C19: an Add of a key that is present replaces value and deadline (now +
\* ttl) and touches no other key; the entry then stays until the new deadline
\* whatever its old one was, and the eviction of one key leaves the others.
C19_Overwrite ==
  /\ [](\A k \in Keys :
         Live(k) => /\ k \in DOMAIN items
                    /\ items[k] = [Value |-> added[k].value,
                                    TTL |-> added[k].at + added[k].ttl])
  /\ [][ /\ \A k \in Keys :
               AddStep(k)
                 => /\ DOMAIN items' = DOMAIN items \cup {k}
                    /\ items'[k] = [Value |-> added'[k].value, TTL |-> now + added'[k].ttl]
                    /\ \A j \in DOMAIN items \ {k} : items'[j] = items[j]
         /\ EvictStep
              => \A j \in DOMAIN items \ {lastEvict'.key} :
                   j \in DOMAIN items' /\ items'[j] = items[j]
      ]_vars

\* k1, added again with another value before its first deadline, is in the
\* cache with the new value after that deadline and after the sweep that
\* evicted k2
C19_Witness ==
  /\ Live("k1")
  /\ added["k1"].old # NoItem
  /\ added["k1"].old.Value # added["k1"].value
  /\ added["k1"].old.TTL < now
  /\ lastEvict.key = "k2"
  /\ pc["sweeper"] = "wait"
  /\ ~tickPending
  /\ Get("k1") = [value |-> added["k1"].value, ok |-> TRUE]

\* C20: the channel never holds more than 64 ids; while it holds 64 the
\* handler stays in its Send with the ids it has still to hand over, until the
\* drainer takes one; an id leaves the handler only into the channel and
\* leaves the channel only as the id the drainer handles next.
C20_BoundedQueue ==
  /\ [](Len(Events) <= bufferSize)
  /\ [][ /\ (Len(Events) = bufferSize /\ rpcIds # <<>>)
            => rpcIds' = rpcIds /\ Events' \in {Events, Tail(Events)}
         /\ (rpcIds # <<>> /\ rpcIds' # rpcIds)
            => rpcIds' = Tail(rpcIds) /\ Events' = Append(Events, Head(rpcIds))
         /\ Events' # Events
            => \/ rpcIds # <<>> /\ Events' = Append(Events, Head(rpcIds))
                  /\ rpcIds' = Tail(rpcIds) /\ dId' = dId
               \/ /\ Events # <<>> /\ Events' = Tail(Events)
                  /\ pc["drainer"] = "recv" /\ pc'["drainer"] = "get"
                  /\ dId' = Head(Events) /\ rpcIds' = rpcIds
      ]_vars

\* the channel full, the handler waiting in Send, the drainer about to take
\* an id
C20_Witness ==
  /\ Len(Events) = bufferSize
  /\ rpcIds # <<>>
  /\ pc["drainer"] = "recv"

\* C21: the drainer hands the ids to StateManager.Send in the order they were
\* enqueued: the handler of a stream puts the ids of a request at the tail of
\* the channel in the order of the id list, request after request, the drainer
\* takes the id at the head, and the id it has handed to Send stays the only
\* one in progress until Send has returned.
C21_Fifo ==
  [][ /\ (pc["drainer"] = "recv" /\ pc'["drainer"] = "get")
         => /\ Events # <<>>
            /\ dId' = Head(Events)
            /\ Events' = Tail(Events)
            /\ rpcIds' = rpcIds
      /\ (rpcIds' # rpcIds /\ rpcPc = "loop")
         => /\ rpcIds # <<>>
            /\ rpcIds' = Tail(rpcIds)
            /\ Events' = Append(Events, Head(rpcIds))
      /\ (Events' # Events)
         => \/ pc["drainer"] = "recv" /\ pc'["drainer"] = "get"
            \/ rpcPc = "loop" /\ rpcIds' # rpcIds
      /\ (pc["drainer"] \in {"get", "api", "add", "ret"})
         => /\ dId # "none"
            /\ dId' \in {dId, "none"}
            /\ dId' = "none" => pc'["drainer"] \in {"recv", "dead"}
    ]_vars

\* the agent sent "s1" before "x": "s1" is in Send, "x" waits behind it with
\* the "s1" of the next request
C21_Witness ==
  /\ dId = "s1"
  /\ pc["drainer"] = "add"
  /\ Events = <<"x", "s1">>

\* C22 as stated: every id enqueued is passed to StateManager.Send, the ids
\* still queued when the root context is cancelled included: the drainer
\* returns only from an empty channel.
C22_AllConsumed ==
  [][(pc["drainer"] = "recv" /\ pc'["drainer"] = "done") => Events = <<>>]_vars

\* C22, amended: an id leaves the channel only by the receive of the drainer,
\* which starts one StateManager.Send for it, and no Send starts in another
\* way, so no id is handled twice; once the drainer has returned no id leaves
\* the channel any more.
C22_AtMostOnce ==
  [][ /\ (pc'["drainer"] = "get" /\ pc["drainer"] # "get")
         => /\ pc["drainer"] = "recv"
            /\ Events # <<>>
            /\ dId' = Head(Events)
            /\ Events' = Tail(Events)
      /\ (Len(Events') < Len(Events))
         => /\ pc["drainer"] = "recv"
            /\ pc'["drainer"] = "get"
            /\ Len(Events') = Len(Events) - 1
      /\ (pc["drainer"] = "done")
         => /\ pc'["drainer"] \in {"done", "dead"}
            /\ Len(Events') >= Len(Events)
            /\ dId' = "none"
    ]_vars

\* the root context is cancelled, the drainer has returned, and ids are left
\* in the channel that Checker.Close has closed
C22_Witness ==
  /\ rootDone
  /\ closed
  /\ pc["drainer"] = "done"
  /\ Events = <<"s1", "x">>

\* C23: after the shutdown watcher has closed Events no handler of a stream
\* executes Checker.Send on it: no send hits the closed channel (which in Go
\* is a panic).
C23_NoSendAfterClose == ~panicked

\* C24: once the root context is cancelled every background task eventually
\* terminates: the drainer has returned, the watcher has closed the channel
\* and returned, the handler of the stream has returned and the sweeper of the
\* cache has returned (or the process is gone altogether).
C24_AllTerminate ==
  rootDone ~> \/ panicked
              \/ /\ pc["drainer"] = "done"
                 /\ closed
                 /\ rpcPc = "done"
                 /\ pc["sweeper"] = "done"

C26_SingleResponse == acks <= 1

\* C27: the notifier succeeds exactly when the transport produced a response,
\* whatever its HTTP status: a Down notification answered with any status, 500
\* included, is delivered, the handler takes no further attempt and re-inserts
\* nothing, and the sweeper removes the entry; only an error of the transport
\* leads to the retry path (attempt + 1, re-insert with the retry TTL).
C27_AnyStatusDelivers ==
  [][ /\ (pc["sweeper"] = "gcSend" /\ pc'["sweeper"] # "gcSend")
         => /\ swOut' \in Transport
            /\ swOut'.kind = "response"
                 => /\ pc'["sweeper"] = "delete"
                    /\ lastDelivered'[swKey] = Down
                    /\ swCur' = swCur
                    /\ addArgs' = addArgs
            /\ swOut'.kind # "response"
                 => /\ pc'["sweeper"] = "add"
                    /\ lastDelivered' = lastDelivered
                    /\ swCur'.attempt = swCur.attempt + 1
                    /\ addArgs'["sweeper"] = [key |-> swKey, value |-> swCur', ttl |-> timeout]
      /\ (pc["sweeper"] = "delete" /\ pc'["sweeper"] # "delete")
         => /\ swOut.kind \in {"response", "none"}
            /\ swOut.kind = "none" => GaveUp(swCur)
            /\ swKey \notin DOMAIN items'
            /\ downs' = downs
    ]_vars

\* the webhook answered the Down notification with 500: the handler has
\* returned and the sweeper is about to remove the entry
C27_Witness ==
  /\ pc["sweeper"] = "delete"
  /\ swOut = [kind |-> "response", code |-> 500]
  /\ lastDelivered[swKey] = Down
  /\ swKey \in DOMAIN items

\* C28: the end of a stream (the agent disconnects, its context is cancelled)
\* cancels no notification: the Down notification of the eviction handler is
\* never cancelled and always gets an outcome of the transport, an Up
\* notification is cancelled only by the root context, and the step that ends
\* the stream changes nothing in the drainer, the sweeper or the cache.
C28_StreamCancelsNothing ==
  /\ [](swOut.kind # "canceled")
  /\ []((dRet = "context canceled") => rootDone)
  /\ [][ /\ (pc["sweeper"] = "gcSend" /\ pc'["sweeper"] \in {"delete", "add"})
            => swOut' \in Transport
         /\ (streamDone' /\ ~streamDone)
            => UNCHANGED <<drainVars, sweepVars, obsVars, items, pc>>
      ]_vars

\* the agent has gone, the root context is live, and the eviction handler has
\* its Down notification answered
C28_Witness ==
  /\ streamDone
  /\ rpcPc = "done"
  /\ ~rootDone
  /\ acks = 1
  /\ now = 2 * ttl
  /\ pc["sweeper"] = "delete"
  /\ swOut.kind = "response"

\* C29: one sweep is atomic for Add and Get: the sweeper holds the write lock
\* of the cache from the start of the scan to its end, the eviction callback
\* and its notifier round trip included; while it does, a Get or an Add of the
\* drainer stays where it is, and the items change only by the sweeper's own
\* removal of the entry it has just had evicted.
C29_SweepAtomic ==
  /\ []((pc["sweeper"] \in {"scan", "gcSend", "add", "delete"}) <=> (cacheMu = "sweeper"))
  /\ [][ (cacheMu = "sweeper")
           => /\ (pc["drainer"] \in {"get", "add"})
                   => /\ pc'["drainer"] = pc["drainer"]
                      /\ dCur' = dCur
                      /\ addArgs'["drainer"] = addArgs["drainer"]
              /\ (items' # items)
                   => /\ pc["sweeper"] = "delete"
                      /\ items' = [k \in DOMAIN items \ {swKey} |-> items[k]]
              /\ (cacheMu' # "sweeper")
                   => /\ pc["sweeper"] = "scan"
                      /\ swTodo = {}
      ]_vars

\* the eviction handler is in its notifier call for s1, under the lock, and
\* the drainer waits in Cache.Get with a heartbeat of s1
C29_Witness ==
  /\ cacheMu = "sweeper"
  /\ pc["sweeper"] = "gcSend"
  /\ swKey = "s1"
  /\ pc["drainer"] = "get"
  /\ dId = "s1"

\* C30: an Up heartbeat for s that is handled while the eviction handler is in
\* a retry for s (it has failed to notify Down and re-inserts the entry with
\* attempt + 1) is serialised with that re-insert, and both complete: Send
\* returns nil with the entry of s rewritten to attempt 0.
C30_RefreshCompletes ==
  \A s \in DOMAIN storage :
    (pc["drainer"] = "get" /\ dId = s /\ pc["sweeper"] = "add" /\ swKey = s)
      ~> (pc["drainer"] = "ret" /\ dId = s /\ dRet = "nil"
          /\ s \in DOMAIN items /\ items[s].Value = NewState(Up))

C33_CallbackAfterRemove ==
  (pc["sweeper"] \in {"gcSend", "add"}) => swKey \notin DOMAIN items

C35_ErrorsLogged ==
  [][ /\ (pc["drainer"] = "ret" /\ pc'["drainer"] # "ret" /\ ~panicked')
         => /\ pc'["drainer"] = "recv"
            /\ Events' = Events
            /\ UNCHANGED <<streamVars, lifeVars>>
      /\ (pc["drainer"] \in {"get", "api"} /\ pc'["drainer"] = "ret")
         => /\ dRet' \in {"ErrWebhookNotFound", "transport error", "context canceled"}
            /\ Events' = Events
            /\ UNCHANGED <<streamVars, lifeVars>>
    ]_vars

\* Send has returned the directory's error for "x"; the stream is open and
\* the heartbeat of s1 waits in the channel
C35_Witness ==
  /\ pc["drainer"] = "ret"
  /\ dId = "x"
  /\ dRet = "ErrWebhookNotFound"
  /\ Events = <<"s1">>
  /\ rpcPc = "recv"
  /\ acks = 1
  /\ ~streamDone
  /\ ~rootDone

\* C36: no two Down notifications are delivered for a service without a
\* delivered Up notification for it in between: when a Down notification for
\* s is delivered, the notification delivered last for s was Up.
C36_NoDoubleDown ==
  [][ \A s \in Ids :
        (edgeDownOk'[s] = edgeDownOk[s] + 1) => lastDelivered[s] = Up
    ]_vars

\* C37: with the root context live, every id in the ingress channel is
\* eventually handed to StateManager.Send and that Send returns: the drainer
\* is never blocked for ever on the lock of the cache.
C37_SendReturns ==
  \A s \in Ids :
    (Events # <<>> /\ Head(Events) = s) ~> (dId = s /\ pc["drainer"] = "ret")

\* C38: heartbeats for one configured id that no Down was ever attempted for,
\* whichever streams they come from, make the engine emit exactly one Up
\* notification (the notifier succeeding): the drainer handles them one after
\* the other, an Up is emitted only by a Send that found no entry, and once
\* the entry is written exactly one Up has been delivered for it.
C38_OneUp ==
  \A s \in Configured :
    /\ (s \in DOMAIN items /\ downs[s] = 0) => upOkEdge[s] = 1
    /\ (dId = s /\ pc["drainer"] = "api") => (s \notin DOMAIN items /\ dCur = NilState)
    /\ (dId = s /\ OwnUps > 0) => (OwnUps = 1 /\ dCur = NilState)

\* three heartbeats of s1 at once: the first has delivered Up and written the
\* entry, the second is being refreshed without a notification, the third
\* waits in the channel
C38_Witness ==
  /\ now = 0
  /\ upOkEdge["s1"] = 1
  /\ "s1" \in DOMAIN items
  /\ dId = "s1"
  /\ pc["drainer"] = "add"
  /\ dTrace = <<>>
  /\ Events = <<"s1">>

\* C39: every key in the cache of the engine is an id of the directory, and
\* so is every key handed to cache.Add and every key the eviction handler is
\* called for: the directory lookup of the eviction handler does not fail,
\* and when the handler re-inserts, it is after a failure of the transport.
C39_KeysConfigured ==
  /\ DOMAIN items \subseteq Configured
  /\ \A p \in Procs : addArgs[p] # NoCall => addArgs[p].key \in Configured
  /\ swKey # "none" => (swKey \in Configured /\ RepoGet(swKey).err = "nil")
  /\ pc["sweeper"] = "add" => swOut = Failure

\* the directory has refused "x", whose Send returned the error and wrote
\* nothing, and the eviction handler is at work on the configured s1
C39_Witness ==
  /\ dId = "x"
  /\ pc["drainer"] = "ret"
  /\ dRet = "ErrWebhookNotFound"
  /\ pc["sweeper"] = "add"
  /\ swKey = "s1"
  /\ DOMAIN items = {"s1"}

====
